---- MODULE Spec2Model ----
(***************************************************************************)
(* SignCTRL failover controller.                                           *)
(*                                                                         *)
(*   - BaseSignCtrled (types/signctrled.go): rank, counter of missed       *)
(*     blocks in a row, threshold and start-up lock.                       *)
(*   - SCFilePV.run / OnStart / OnStop (privval/sc_file.go): the loop      *)
(*     that reads requests from the validator, answers them and reacts     *)
(*     to errors of the request handler.                                   *)
(*   - startCmd.Run (cmd/start.go): the process that owns the service.     *)
(*   - A set of instances, each with its own BaseSignCtrled, observing     *)
(*     the same chain at its own pace.                                     *)
(***************************************************************************)
EXTENDS Integers, Sequences, FiniteSets, TLC

\* ---------------------------------------------------------------- bounds
MaxRank      == 3   \* start ranks are drawn from 1..MaxRank
MaxThreshold == 3   \* thresholds are drawn from 2..MaxThreshold
MaxCalls     == 9   \* longest run of consecutive Missed() calls that is counted
NumInstances == 2   \* instances of the set (start rank of instance i is i)
MaxHeight    == 5   \* blocks of the chain the instances observe
MaxCfgInt    == 3   \* set_size, threshold, start_rank are drawn from -1..MaxCfgInt

\* ---------------------------------------------------------------- errors
ErrNil               == "nil"
ErrThresholdExceeded == "ThresholdExceeded"
ErrMustShutdown      == "MustShutdown"
ErrCounterLocked     == "CounterLocked"
ErrTooManyMissedBlocks == "TooManyMissedBlocks"

\* ------------------------------------------------ types/signctrled.go
\* The struct BaseSignCtrled: the fields the methods read and write.
BaseSignCtrled ==
    [counterLocked : BOOLEAN,
     missedInARow  : 0..(MaxThreshold + 2),
     threshold     : 2..(MaxThreshold + 1),
     rank          : 0..(MaxRank + 1)]

NewBaseSignCtrled(threshold, rank) ==
    [counterLocked |-> TRUE,
     missedInARow  |-> 0,
     threshold     |-> threshold,
     rank          |-> rank]

\* UnlockCounter that flips the lock.
UnlockCounterToggle(bsc) ==
    [bsc EXCEPT !.counterLocked = ~@]

UnlockCounter(bsc) ==
    IF bsc.counterLocked
    THEN [bsc EXCEPT !.counterLocked = FALSE]
    ELSE bsc

\* Reset that takes one off the counter.
ResetByOne(bsc) ==
    IF bsc.missedInARow > 0
    THEN [bsc EXCEPT !.missedInARow = @ - 1]
    ELSE bsc

\* Reset that leaves the counter alone.
ResetNever(bsc) == bsc

Reset(bsc) ==
    IF bsc.missedInARow > 0
    THEN [bsc EXCEPT !.missedInARow = 0]
    ELSE bsc

\* promote without the rank == 1 check.
promoteNoCeiling(bsc) ==
    [bsc |-> Reset([bsc EXCEPT !.rank = @ - 1]), err |-> ErrNil]

\* promote that reports the shutdown at rank 1 as a plain success.
promoteSilent(bsc) ==
    IF bsc.rank = 1
    THEN [bsc |-> bsc, err |-> ErrNil]
    ELSE [bsc |-> Reset([bsc EXCEPT !.rank = @ - 1]), err |-> ErrNil]

\* promote that skips a rank.
promoteSkip(bsc) ==
    IF bsc.rank = 1
    THEN [bsc |-> bsc, err |-> ErrMustShutdown]
    ELSE [bsc |-> Reset([bsc EXCEPT !.rank = IF @ > 2 THEN @ - 2 ELSE 1]),
          err |-> ErrNil]

\* promote that reports the promotion and keeps the rank.
promoteKeepRank(bsc) ==
    IF bsc.rank = 1
    THEN [bsc |-> bsc, err |-> ErrMustShutdown]
    ELSE [bsc |-> Reset(bsc), err |-> ErrNil]

promote(bsc) ==
    IF bsc.rank = 1
    THEN [bsc |-> bsc, err |-> ErrMustShutdown]
    ELSE [bsc |-> Reset([bsc EXCEPT !.rank = @ - 1]), err |-> ErrNil]

\* Missed that counts although the counter is locked.
MissedIgnoringLock(bsc) ==
    LET inc == [bsc EXCEPT !.missedInARow = @ + 1] IN
    IF inc.missedInARow = inc.threshold
    THEN LET p == promote(Reset(inc)) IN
         IF p.err # ErrNil THEN p
         ELSE [bsc |-> p.bsc, err |-> ErrThresholdExceeded]
    ELSE [bsc |-> inc, err |-> ErrNil]

\* Missed that compares the counter with the threshold before counting.
MissedOffByOne(bsc) ==
    IF bsc.counterLocked
    THEN [bsc |-> bsc, err |-> ErrCounterLocked]
    ELSE IF bsc.missedInARow = bsc.threshold
         THEN LET p == promote(Reset(bsc)) IN
              IF p.err # ErrNil THEN p
              ELSE [bsc |-> p.bsc, err |-> ErrThresholdExceeded]
         ELSE [bsc |-> [bsc EXCEPT !.missedInARow = @ + 1], err |-> ErrNil]

\* Missed that does not reset the counter before promoting.
MissedNoReset(bsc) ==
    IF bsc.counterLocked
    THEN [bsc |-> bsc, err |-> ErrCounterLocked]
    ELSE LET inc == [bsc EXCEPT !.missedInARow = @ + 1] IN
         IF inc.missedInARow = inc.threshold
         THEN LET p == promote(inc) IN
              IF p.err # ErrNil THEN p
              ELSE [bsc |-> p.bsc, err |-> ErrThresholdExceeded]
         ELSE [bsc |-> inc, err |-> ErrNil]

\* Missed that promotes one call late (counter compared with threshold + 1).
MissedLate(bsc) ==
    IF bsc.counterLocked
    THEN [bsc |-> bsc, err |-> ErrCounterLocked]
    ELSE LET inc == [bsc EXCEPT !.missedInARow = @ + 1] IN
         IF inc.missedInARow = inc.threshold + 1
         THEN LET p == promote(Reset(inc)) IN
              IF p.err # ErrNil THEN p
              ELSE [bsc |-> p.bsc, err |-> ErrThresholdExceeded]
         ELSE [bsc |-> inc, err |-> ErrNil]

Missed(bsc) ==
    IF bsc.counterLocked
    THEN [bsc |-> bsc, err |-> ErrCounterLocked]
    ELSE LET inc == [bsc EXCEPT !.missedInARow = @ + 1] IN
         IF inc.missedInARow = inc.threshold
         THEN LET p == promote(Reset(inc)) IN
              IF p.err # ErrNil THEN p
              ELSE [bsc |-> p.bsc, err |-> ErrThresholdExceeded]
         ELSE [bsc |-> inc, err |-> ErrNil]

\* The log lines the methods write (Logger.Println / Printf), as a count.
UnlockCounterLog(bsc) == IF bsc.counterLocked THEN 1 ELSE 0

ResetLog(bsc) == IF bsc.missedInARow > 0 THEN 1 ELSE 0

promoteLog(bsc) ==
    IF bsc.rank = 1
    THEN 0
    ELSE 1 + ResetLog([bsc EXCEPT !.rank = @ - 1])

MissedLog(bsc) ==
    IF bsc.counterLocked
    THEN 0
    ELSE LET inc == [bsc EXCEPT !.missedInARow = @ + 1] IN
         IF inc.missedInARow = inc.threshold
         THEN 1 + 1 + ResetLog(inc) + promoteLog(Reset(inc))
         ELSE 1

\* ---------------------------------------------------------------- state
VARIABLES
    bsc,          \* the BaseSignCtrled embedded in the SCFilePV
    startRank,    \* Config.Base.StartRank, the rank the instance was built with
    lastErr,      \* what the latest Missed() call returned ("none": no call yet)
    missedCalls,  \* Missed() calls since the unlock, while nothing else touched
                  \* the counter (-1: something else did, or more than MaxCalls)
    outcome,      \* error of Missed() not yet handed to the run loop
    lastCall,     \* the latest call on the BaseSignCtrled and the log lines it wrote
    pc,           \* run goroutine: "new" (not started), "select", "reading" (in
                  \* ReadMsg), "done" (returned, or ended the process itself)
    quit,         \* the Quit() channel of the service is closed
    conn,         \* pv.SecretConn: "none", "open", "closed"
    openConns,    \* connections to the validator the process holds open
    timer,        \* the timeout timer of run: "none", "armed", "fired", "expired"
    exit,         \* the process: "running", or exited: "exit0", "exit1"
    lastResp,     \* response composed for the latest request ("none": no request)
    dispatchRank, \* rank when the latest request was dispatched (0: no request)
    handleErr,    \* error HandleRequest returned for the latest request
    ioErr,        \* what the iteration of run that just ended logged about the
                  \* connection: "none", "read" (ReadMsg failed), "write"
                  \* (WriteMsg failed)
    stopCause,    \* why Stop() was called: "none" (not called), "start" (OnStart
                  \* failed), "key" (conn.key not loaded on reconnect),
                  \* "shutdown" (ErrMustShutdown), "signal", or "save" (the
                  \* Save of OnStop failed)
    insts,        \* set of instances: the BaseSignCtrled of each
    mstatus,      \* set of instances: "off", "running", "terminated"
    mheight,      \* set of instances: the last block each has observed
    chain,        \* the chain: chain[h] is TRUE iff the leader's signature is in block h
    race,         \* a Missed() of the observer and a Reset() of run, field access
                  \* by field access, on one BaseSignCtrled
    cfg,          \* the Base section of a configuration
    verdict,      \* what Base.validate returned for it ("none": not called)
    legacy        \* a PairmintFilePV: Rank, Threshold, MissedInARow,
                  \* CounterUnlocked; err, what its latest Missed() returned,
                  \* and updates, the Update() calls so far

loopVars  == <<pc, quit, conn, openConns, timer, exit, lastResp, dispatchRank,
               handleErr, ioErr, stopCause>>
ctrlVars  == <<bsc, startRank, lastErr, missedCalls, outcome, lastCall>>
multiVars == <<insts, mstatus, mheight, chain>>
auxVars   == <<race, cfg, verdict, legacy>>
vars      == <<bsc, startRank, lastErr, missedCalls, outcome, lastCall, pc, quit,
               conn, openConns, timer, exit, lastResp, dispatchRank, handleErr,
               ioErr, stopCause, insts, mstatus, mheight, chain, race, cfg,
               verdict, legacy>>

Instances == 1..NumInstances

\* Operation tags of the inbound messages.
Requests == {"PubKeyRequest", "SignVoteRequest", "SignProposalRequest", "PingRequest"}

IsSignRequest(req) == req \in {"SignVoteRequest", "SignProposalRequest"}

\* ------------------------------------------------- config/config.go
\* Strings the checks look into are sequences of characters.
Digits    == {"0", "1", "2", "3", "4", "5", "6", "7", "8", "9"}
WordChars == Digits \cup {"s", "m", "h", "d", "_"}

\* types.LogLevels, as named by the comment of Base.LogLevel.
LogLevels ==
    { <<"D", "E", "B", "U", "G">>, <<"I", "N", "F", "O">>,
      <<"W", "A", "R", "N">>, <<"E", "R", "R">> }

\* regexp.MatchString of the alternation of the levels: the string holds
\* one of them somewhere.
MatchLogLevel(level) ==
    \E l \in LogLevels :
        \E i \in 0..(Len(level) - Len(l)) :
            SubSeq(level, i + 1, i + Len(l)) = l

\* The addresses of the tests and what validateAddress finds in each: no
\* (tcp|unix):// protocol, no host:port, no IP address, no .sock suffix.
Addresses ==
    {"tcp://127.0.0.1:3000", "tcp://127.0.0.1:26657", "invalid://127.0.0.1:3000",
     "tcp://127.0.0.1", "tcp://127.300.0.1:3000", "unix:///test"}

validateAddress(addr) ==
    CASE addr = "invalid://127.0.0.1:3000" -> "is missing the protocol"
      [] addr = "tcp://127.0.0.1"          -> "is not in the host:port format"
      [] addr = "tcp://127.300.0.1:3000"   -> "is not a valid IPv4 address"
      [] addr = "unix:///test"             -> "is not a unix domain socket address"
      [] OTHER                             -> "nil"

\* validate_time: the messages it adds for one duration.
validate_time(attr, value) ==
    IF value = <<>>
    THEN {<<attr, "must not be empty">>}
    ELSE (IF \E i \in 1..(Len(value) - 1) :
                 value[i] \in Digits \ {"0"} /\ value[i + 1] \in Digits
          THEN {} ELSE {<<attr, "is missing the time">>})
         \cup
         (IF \E i \in 1..Len(value) :
                 /\ value[i] \in {"s", "m", "h"}
                 /\ (i = Len(value) \/ value[i + 1] \notin WordChars)
          THEN {} ELSE {<<attr, "is missing the unit of time">>})

\* Base.validate that accepts a threshold of 1.
validateThresholdOne(b) ==
    (IF MatchLogLevel(b.LogLevel) THEN {} ELSE {<<"log_level", "must be one of">>})
    \cup (IF b.SetSize < 2 THEN {<<"set_size", "must be 2 or higher">>} ELSE {})
    \cup (IF b.Threshold < 1 THEN {<<"threshold", "must be 2 or higher">>} ELSE {})
    \cup (IF b.StartRank < 1 THEN {<<"start_rank", "must be 1 or higher">>} ELSE {})
    \cup (IF validateAddress(b.ValidatorListenAddress) # "nil"
          THEN {<<"validator_laddr", validateAddress(b.ValidatorListenAddress)>>}
          ELSE {})
    \cup (IF validateAddress(b.ValidatorListenAddressRPC) # "nil"
          THEN {<<"validator_laddr_rpc", validateAddress(b.ValidatorListenAddressRPC)>>}
          ELSE {})
    \cup validate_time("retry_dial_after", b.RetryDialAfter)
    \cup validate_time("boostrap_time", b.BootStrapTime)

\* Base.validate: the messages collected in errs; the error is nil iff
\* there is none.
validate(b) ==
    (IF MatchLogLevel(b.LogLevel) THEN {} ELSE {<<"log_level", "must be one of">>})
    \cup (IF b.SetSize < 2 THEN {<<"set_size", "must be 2 or higher">>} ELSE {})
    \cup (IF b.Threshold < 2 THEN {<<"threshold", "must be 2 or higher">>} ELSE {})
    \cup (IF b.StartRank < 1 THEN {<<"start_rank", "must be 1 or higher">>} ELSE {})
    \cup (IF validateAddress(b.ValidatorListenAddress) # "nil"
          THEN {<<"validator_laddr", validateAddress(b.ValidatorListenAddress)>>}
          ELSE {})
    \cup (IF validateAddress(b.ValidatorListenAddressRPC) # "nil"
          THEN {<<"validator_laddr_rpc", validateAddress(b.ValidatorListenAddressRPC)>>}
          ELSE {})
    \cup validate_time("retry_dial_after", b.RetryDialAfter)
    \cup validate_time("boostrap_time", b.BootStrapTime)

\* testConfig of the tests: the reference valid configuration.
testConfig ==
    [LogLevel                  |-> <<"I", "N", "F", "O">>,
     SetSize                   |-> 2,
     Threshold                 |-> 10,
     StartRank                 |-> 1,
     ValidatorListenAddress    |-> "tcp://127.0.0.1:3000",
     ValidatorListenAddressRPC |-> "tcp://127.0.0.1:26657",
     RetryDialAfter            |-> <<"1", "5", "s">>,
     BootStrapTime             |-> <<"1", "0", "m">>]

\* The values a field of the configuration is given.
CfgInts == (-1..MaxCfgInt) \cup {10}

CfgValues(field) ==
    CASE field = "LogLevel" ->
            {<<"I", "N", "F", "O">>, <<"I", "N", "V", "A", "L", "I", "D">>}
      [] field \in {"SetSize", "Threshold", "StartRank"} -> CfgInts
      [] field = "ValidatorListenAddress" ->
            {"tcp://127.0.0.1:3000", "invalid://127.0.0.1:3000", "unix:///test"}
      [] field = "ValidatorListenAddressRPC" ->
            {"tcp://127.0.0.1:26657", "tcp://127.0.0.1", "tcp://127.300.0.1:3000"}
      [] field = "RetryDialAfter" ->
            {<<"1", "5", "s">>, <<>>, <<"0", "1", "d">>}
      [] field = "BootStrapTime" ->
            {<<"1", "0", "m">>, <<"5", "s">>}

CfgFields == DOMAIN testConfig

\* ------------------------------------------------------------ Init
\* A BaseSignCtrled nobody is calling, a configuration nobody has checked.
InitRaceIdle ==
    race = [bsc |-> NewBaseSignCtrled(2, 1), start |-> NewBaseSignCtrled(2, 1),
            obsPc |-> "done", tmp |-> 0, err |-> "none", loopPc |-> "done"]

InitCfgIdle ==
    /\ cfg = testConfig
    /\ verdict = "none"

\* NewPairmintFilePV, with the rank and the threshold of a configuration.
NewPairmintFilePV(threshold, rank) ==
    [Rank |-> rank, Threshold |-> threshold, MissedInARow |-> 0,
     CounterUnlocked |-> FALSE, err |-> "none", updates |-> 0]

InitLegacyIdle ==
    legacy = NewPairmintFilePV(2, 1)

InitMulti ==
    /\ insts   = [i \in Instances |-> NewBaseSignCtrled(2, i)]
    /\ mstatus = [i \in Instances |-> "off"]
    /\ mheight = [i \in Instances |-> 0]
    /\ chain   = <<>>

\* NewSCFilePV: the service is built, not started; the counter is locked.
Init ==
    /\ \E t \in 2..MaxThreshold, r \in 1..MaxRank :
          /\ bsc = NewBaseSignCtrled(t, r)
          /\ startRank = r
    /\ lastErr = "none"
    /\ missedCalls = -1
    /\ outcome = ErrNil
    /\ lastCall = [op |-> "New", logs |-> 0]
    /\ pc = "new"
    /\ quit = FALSE
    /\ conn = "none"
    /\ openConns = 0
    /\ timer = "none"
    /\ exit = "running"
    /\ lastResp = "none"
    /\ dispatchRank = 0
    /\ handleErr = ErrNil
    /\ ioErr = "none"
    /\ stopCause = "none"
    /\ InitMulti
    /\ InitRaceIdle
    /\ InitCfgIdle
    /\ InitLegacyIdle


\* ------------------------------------------- the block/leader observer
\* The observer runs in the process, next to the run goroutine, and calls
\* UnlockCounter(), Missed() and Reset() on the BaseSignCtrled of the SCFilePV.
ObsUnlockCounter ==
    /\ exit = "running"
    /\ bsc' = UnlockCounter(bsc)
    /\ lastCall' = [op |-> "UnlockCounter", logs |-> UnlockCounterLog(bsc)]
    /\ missedCalls' = IF bsc.counterLocked THEN 0 ELSE missedCalls
    /\ UNCHANGED <<startRank, lastErr, outcome>>
    /\ UNCHANGED loopVars
    /\ UNCHANGED <<multiVars, auxVars>>

ObsMissed ==
    /\ exit = "running"
    /\ LET r == Missed(bsc) IN
          /\ bsc' = r.bsc
          /\ lastErr' = r.err
          /\ lastCall' = [op |-> "Missed", logs |-> MissedLog(bsc)]
          /\ outcome' = IF r.err \in {ErrThresholdExceeded, ErrMustShutdown}
                        THEN r.err ELSE outcome
    /\ missedCalls' = IF missedCalls >= 0 /\ missedCalls < MaxCalls
                      THEN missedCalls + 1 ELSE -1
    /\ UNCHANGED startRank
    /\ UNCHANGED loopVars
    /\ UNCHANGED <<multiVars, auxVars>>

ObsReset ==
    /\ exit = "running"
    /\ bsc' = Reset(bsc)
    /\ lastCall' = [op |-> "Reset", logs |-> ResetLog(bsc)]
    /\ missedCalls' = -1
    /\ UNCHANGED <<startRank, lastErr, outcome>>
    /\ UNCHANGED loopVars
    /\ UNCHANGED <<multiVars, auxVars>>

\* ------------------------------------------------ the service and run
\* The connection once the process is gone: the system closes an open socket.
ConnAfterExit == IF conn = "open" THEN "closed" ELSE conn

\* Stop() of the service: the first call closes the Quit() channel and runs
\* OnStop, which saves the rank and exits with status 1 when it cannot; a
\* later call does nothing. The value is the process status after the call.
StopExit(saveOk) ==
    IF quit THEN exit
    ELSE IF saveOk THEN exit ELSE "exit1"

\* Why the service was stopped, after a Stop() for the given cause.
StopCause(cause, saveOk) ==
    IF quit THEN stopCause
    ELSE IF saveOk THEN cause ELSE "save"

\* run that ends on every error of HandleRequest.
MustTerminateAny(err) == err # ErrNil

MustTerminateNever(err) == FALSE

\* run, line 147: the error that ends the goroutine.
MustTerminate(err) == err = ErrMustShutdown

\* HandleRequest that signs whatever the rank.
HandleRequestNoGate(req, b, out) ==
    IF IsSignRequest(req)
    THEN [resp |-> "signed", err |-> out, bsc |-> Reset(b)]
    ELSE IF req = "PubKeyRequest"
         THEN [resp |-> "pubkey", err |-> out, bsc |-> b]
         ELSE [resp |-> "pong", err |-> out, bsc |-> b]

\* HandleRequest(ctx, &msg, pv): a signing request is signed at rank 1 (and
\* counts as a Reset) and declined at every other rank; public-key and ping
\* requests are answered whatever the rank. The error is the one the
\* controller reported since the previous request; run writes the response
\* before it looks at the error.
HandleRequest(req, b, out) ==
    IF IsSignRequest(req)
    THEN IF b.rank = 1
         THEN [resp |-> "signed", err |-> out, bsc |-> Reset(b)]
         ELSE [resp |-> "declined", err |-> out, bsc |-> b]
    ELSE IF req = "PubKeyRequest"
         THEN [resp |-> "pubkey", err |-> out, bsc |-> b]
         ELSE [resp |-> "pong", err |-> out, bsc |-> b]

\* The open connections after pv.SecretConn.Close(), without the close.
CloseConnLeak(n, c) == n

\* The open connections after pv.SecretConn.Close(): n are open, the
\* connection of the SCFilePV is c.
CloseConn(n, c) == IF c = "open" THEN n - 1 ELSE n

\* Start() of the service in startCmd.Run: OnStart loads the connection key,
\* dials the validator and starts run; when it fails, the command stops the
\* service and exits with status 1 (run was never started).
OnStart(keyOk, dialOk) ==
    /\ exit = "running"
    /\ pc = "new"
    /\ IF keyOk /\ dialOk
       THEN /\ conn' = "open"
            /\ openConns' = openConns + 1
            /\ timer' = "armed"
            /\ pc' = "select"
            /\ UNCHANGED <<quit, exit>>
       ELSE /\ quit' = TRUE
            /\ exit' = "exit1"
            /\ UNCHANGED <<pc, conn, openConns, timer>>
    /\ stopCause' = IF keyOk /\ dialOk THEN stopCause ELSE "start"
    /\ UNCHANGED <<lastResp, dispatchRank, handleErr, ioErr>>
    /\ UNCHANGED ctrlVars
    /\ UNCHANGED <<multiVars, auxVars>>

\* The timer of run fires: no message for retryDialTimeout seconds.
TimerFire ==
    /\ exit = "running"
    /\ pc \in {"select", "reading"}
    /\ timer = "armed"
    /\ timer' = "fired"
    /\ UNCHANGED <<pc, quit, conn, openConns, exit, lastResp, dispatchRank,
                   handleErr, ioErr, stopCause>>
    /\ UNCHANGED ctrlVars
    /\ UNCHANGED <<multiVars, auxVars>>

\* run, case <-pv.Quit().
RunQuit ==
    /\ exit = "running"
    /\ pc = "select"
    /\ quit
    /\ pc' = "done"
    /\ UNCHANGED <<quit, conn, openConns, timer, exit, lastResp, dispatchRank,
                   handleErr, ioErr, stopCause>>
    /\ UNCHANGED ctrlVars
    /\ UNCHANGED <<multiVars, auxVars>>

\* run, case <-timeout.C: close the connection, load the key, dial again.
\* The timer is not reset in this branch.
RunTimeout(keyOk, dialOk, saveOk) ==
    /\ exit = "running"
    /\ pc = "select"
    /\ timer = "fired"
    /\ timer' = "expired"
    /\ IF ~keyOk
       THEN /\ quit' = TRUE
            /\ exit' = StopExit(saveOk)
            /\ conn' = "closed"
            /\ openConns' = IF StopExit(saveOk) # "running"
                            THEN 0 ELSE CloseConn(openConns, conn)
            /\ pc' = "done"
       ELSE IF ~dialOk
            THEN /\ conn' = "closed"
                 /\ openConns' = CloseConn(openConns, conn)
                 /\ pc' = "done"
                 /\ UNCHANGED <<quit, exit>>
            ELSE /\ conn' = "open"
                 /\ openConns' = CloseConn(openConns, conn) + 1
                 /\ pc' = "select"
                 /\ UNCHANGED <<quit, exit>>
    /\ stopCause' = IF keyOk THEN stopCause ELSE StopCause("key", saveOk)
    /\ ioErr' = "none"
    /\ UNCHANGED <<lastResp, dispatchRank, handleErr>>
    /\ UNCHANGED ctrlVars
    /\ UNCHANGED <<multiVars, auxVars>>

\* run, default: no other case is ready, the goroutine blocks in ReadMsg.
RunDefault ==
    /\ exit = "running"
    /\ pc = "select"
    /\ ~quit
    /\ timer # "fired"
    /\ pc' = "reading"
    /\ ioErr' = "none"
    /\ UNCHANGED <<quit, conn, openConns, timer, exit, lastResp, dispatchRank,
                   handleErr, stopCause>>
    /\ UNCHANGED ctrlVars
    /\ UNCHANGED <<multiVars, auxVars>>

\* run that resets the timer before it looks at the error of ReadMsg.
TimerAfterReadAlways(ok, t) == "armed"

\* run, default: timeout.Reset comes after the `continue` of a failed
\* ReadMsg, so only a message that was read arms the timer again.
TimerAfterRead(ok, t) == IF ok THEN "armed" ELSE t

\* run, default: ReadMsg returns an error (EOF included), the loop
\* continues.
RunReadFail ==
    /\ exit = "running"
    /\ pc = "reading"
    /\ pc' = "select"
    /\ timer' = TimerAfterRead(FALSE, timer)
    /\ ioErr' = "read"
    /\ UNCHANGED <<quit, conn, openConns, exit, lastResp, dispatchRank,
                   handleErr, stopCause>>
    /\ UNCHANGED ctrlVars
    /\ UNCHANGED <<multiVars, auxVars>>

\* run, default: ReadMsg returns a message; the timer is reset, the request
\* is handled, the response is written, and a MustShutdown ends the
\* goroutine after stopping the service and closing the connection.
RunDispatch(req, saveOk) ==
    /\ exit = "running"
    /\ pc = "reading"
    /\ conn = "open"
    /\ timer' = TimerAfterRead(TRUE, timer)
    /\ \E writeOk \in BOOLEAN : ioErr' = IF writeOk THEN "none" ELSE "write"
    /\ LET h == HandleRequest(req, bsc, outcome) IN
          /\ bsc' = h.bsc
          /\ lastResp' = h.resp
          /\ handleErr' = h.err
          /\ dispatchRank' = bsc.rank
          /\ missedCalls' = IF h.resp = "signed" THEN -1 ELSE missedCalls
          /\ lastCall' = IF h.resp = "signed"
                         THEN [op |-> "Reset", logs |-> ResetLog(bsc)]
                         ELSE lastCall
          /\ IF MustTerminate(h.err)
             THEN /\ quit' = TRUE
                  /\ exit' = StopExit(saveOk)
                  /\ conn' = "closed"
                  /\ openConns' = IF StopExit(saveOk) # "running"
                                  THEN 0 ELSE CloseConn(openConns, conn)
                  /\ pc' = "done"
                  /\ stopCause' = StopCause("shutdown", saveOk)
             ELSE /\ pc' = "select"
                  /\ UNCHANGED <<quit, conn, openConns, exit, stopCause>>
    /\ outcome' = ErrNil
    /\ UNCHANGED <<startRank, lastErr>>
    /\ UNCHANGED <<multiVars, auxVars>>

\* startCmd.Run, case <-sigs: an interrupt stops the service. When OnStop
\* ends the process, run ends wherever it is.
Interrupt(saveOk) ==
    /\ exit = "running"
    /\ pc # "new"
    /\ ~quit
    /\ quit' = TRUE
    /\ exit' = StopExit(saveOk)
    /\ conn' = IF saveOk THEN conn ELSE ConnAfterExit
    /\ openConns' = IF saveOk THEN openConns ELSE 0
    /\ stopCause' = StopCause("signal", saveOk)
    /\ UNCHANGED <<pc, timer, lastResp, dispatchRank, handleErr, ioErr>>
    /\ UNCHANGED ctrlVars
    /\ UNCHANGED <<multiVars, auxVars>>

\* startCmd.Run after the select: the process exits with status 0; run ends
\* wherever it is.
MainExit ==
    /\ exit = "running"
    /\ quit
    /\ exit' = "exit0"
    /\ conn' = ConnAfterExit
    /\ openConns' = 0
    /\ UNCHANGED <<pc, quit, timer, lastResp, dispatchRank, handleErr, ioErr,
                   stopCause>>
    /\ UNCHANGED ctrlVars
    /\ UNCHANGED <<multiVars, auxVars>>

Next ==
    \/ ObsUnlockCounter
    \/ ObsMissed
    \/ ObsReset
    \/ \E keyOk \in BOOLEAN, dialOk \in BOOLEAN : OnStart(keyOk, dialOk)
    \/ TimerFire
    \/ RunQuit
    \/ \E keyOk \in BOOLEAN, dialOk \in BOOLEAN, saveOk \in BOOLEAN :
          RunTimeout(keyOk, dialOk, saveOk)
    \/ RunDefault
    \/ RunReadFail
    \/ \E req \in Requests, saveOk \in BOOLEAN : RunDispatch(req, saveOk)
    \/ \E saveOk \in BOOLEAN : Interrupt(saveOk)
    \/ MainExit

Spec == Init /\ [][Next]_vars


\* ------------------------------------------------- a set of instances
\* Every instance is its own process with its own BaseSignCtrled, built with
\* the same threshold and its own start rank; its observer walks the chain at
\* its own pace and calls UnlockCounter() and Reset() for a block that holds
\* the leader's signature, Missed() for a block that does not. An instance
\* whose Missed() returns MustShutdown terminates.
InitSet ==
    /\ bsc = NewBaseSignCtrled(2, 1)
    /\ startRank = 1
    /\ lastErr = "none"
    /\ missedCalls = -1
    /\ outcome = ErrNil
    /\ lastCall = [op |-> "New", logs |-> 0]
    /\ pc = "new"
    /\ quit = FALSE
    /\ conn = "none"
    /\ openConns = 0
    /\ timer = "none"
    /\ exit = "running"
    /\ lastResp = "none"
    /\ dispatchRank = 0
    /\ handleErr = ErrNil
    /\ ioErr = "none"
    /\ stopCause = "none"
    /\ \E t \in 2..MaxThreshold :
          insts = [i \in Instances |-> NewBaseSignCtrled(t, i)]
    /\ mstatus = [i \in Instances |-> "off"]
    /\ mheight = [i \in Instances |-> 0]
    /\ chain   = <<>>
    /\ InitRaceIdle
    /\ InitCfgIdle
    /\ InitLegacyIdle

\* The instance starts and observes the chain from its present tip.
SetStart(i) ==
    /\ mstatus[i] = "off"
    /\ mstatus' = [mstatus EXCEPT ![i] = "running"]
    /\ mheight' = [mheight EXCEPT ![i] = Len(chain)]
    /\ UNCHANGED <<insts, chain>>
    /\ UNCHANGED ctrlVars
    /\ UNCHANGED <<loopVars, auxVars>>

\* The chain grows by one block; the block holds the leader's signature only
\* if an instance is running at rank 1.
SetNewBlock(signed) ==
    /\ Len(chain) < MaxHeight
    /\ signed => \E i \in Instances : mstatus[i] = "running" /\ insts[i].rank = 1
    /\ chain' = Append(chain, signed)
    /\ UNCHANGED <<insts, mstatus, mheight>>
    /\ UNCHANGED ctrlVars
    /\ UNCHANGED <<loopVars, auxVars>>

\* The observer of instance i looks at the next block.
SetObserve(i) ==
    /\ mstatus[i] = "running"
    /\ mheight[i] < Len(chain)
    /\ mheight' = [mheight EXCEPT ![i] = @ + 1]
    /\ IF chain[mheight[i] + 1]
       THEN /\ insts' = [insts EXCEPT ![i] = Reset(UnlockCounter(@))]
            /\ UNCHANGED mstatus
       ELSE LET r == Missed(insts[i]) IN
            /\ insts' = [insts EXCEPT ![i] = r.bsc]
            /\ mstatus' = IF r.err = ErrMustShutdown
                          THEN [mstatus EXCEPT ![i] = "terminated"]
                          ELSE mstatus
    /\ UNCHANGED chain
    /\ UNCHANGED ctrlVars
    /\ UNCHANGED <<loopVars, auxVars>>

\* The process of instance i dies.
SetCrash(i) ==
    /\ mstatus[i] = "running"
    /\ mstatus' = [mstatus EXCEPT ![i] = "terminated"]
    /\ UNCHANGED <<insts, mheight, chain>>
    /\ UNCHANGED ctrlVars
    /\ UNCHANGED <<loopVars, auxVars>>

NextSet ==
    \/ \E i \in Instances : SetStart(i)
    \/ \E signed \in BOOLEAN : SetNewBlock(signed)
    \/ \E i \in Instances : SetObserve(i)
    \/ \E i \in Instances : SetCrash(i)

SpecSet == InitSet /\ [][NextSet]_vars

\* -------------------------------------------------------------- types
\* Where the observer is in Missed().
RacePcs == {"enter", "load", "store", "compare", "done"}

TypeOK ==
    /\ bsc \in BaseSignCtrled
    /\ startRank \in 1..MaxRank
    /\ lastErr \in {"none", ErrNil, ErrThresholdExceeded, ErrMustShutdown, ErrCounterLocked}
    /\ missedCalls \in -1..MaxCalls
    /\ outcome \in {ErrNil, ErrThresholdExceeded, ErrMustShutdown}
    /\ pc \in {"new", "select", "reading", "done"}
    /\ quit \in BOOLEAN
    /\ conn \in {"none", "open", "closed"}
    /\ timer \in {"none", "armed", "fired", "expired"}
    /\ exit \in {"running", "exit0", "exit1"}
    /\ lastResp \in {"none", "signed", "declined", "pubkey", "pong"}
    /\ dispatchRank \in 0..MaxRank
    /\ handleErr \in {ErrNil, ErrThresholdExceeded, ErrMustShutdown}
    /\ insts \in [Instances -> BaseSignCtrled]
    /\ mstatus \in [Instances -> {"off", "running", "terminated"}]
    /\ mheight \in [Instances -> 0..MaxHeight]
    /\ chain \in Seq(BOOLEAN)
    /\ lastCall.op \in {"New", "UnlockCounter", "Missed", "Reset"}
    /\ lastCall.logs \in 0..4
    /\ openConns \in 0..1
    /\ race.bsc \in BaseSignCtrled
    /\ race.start \in BaseSignCtrled
    /\ race.obsPc \in RacePcs
    /\ race.loopPc \in {"check", "write", "done"}
    /\ race.tmp \in 0..MaxThreshold
    /\ race.err \in {"none", ErrNil, ErrThresholdExceeded, ErrMustShutdown, ErrCounterLocked}
    /\ \A field \in CfgFields : cfg[field] \in CfgValues(field)
    /\ verdict \in {"none", "nil", "error"}
    /\ ioErr \in {"none", "read", "write"}
    /\ stopCause \in {"none", "start", "key", "shutdown", "signal", "save"}
    /\ legacy.Rank \in (0 - MaxRank)..MaxRank
    /\ legacy.Threshold \in 2..MaxThreshold
    /\ legacy.MissedInARow \in 0..MaxThreshold
    /\ legacy.CounterUnlocked \in BOOLEAN
    /\ legacy.err \in {"none", ErrNil, ErrTooManyMissedBlocks}
    /\ legacy.updates \in 0..(MaxRank + MaxRank)

\* C2: two running instances never hold rank 1 together.
C2_SingleLeader ==
    \A i \in Instances, j \in Instances :
        (i # j /\ mstatus[i] = "running" /\ mstatus[j] = "running")
            => ~(insts[i].rank = 1 /\ insts[j].rank = 1)


\* C1: a request handled by run is answered with a genuine signature only if
\* the rank is 1 when the request is dispatched; a signing request
\* dispatched at another rank is answered with a declination, the signing
\* delegate is not called and the controller is left alone.
C1_SignOnlyAtRankOne ==
    [][\A req \in Requests, saveOk \in BOOLEAN :
          RunDispatch(req, saveOk) =>
             /\ lastResp' = "signed" => (bsc.rank = 1 /\ IsSignRequest(req))
             /\ (IsSignRequest(req) /\ bsc.rank # 1) =>
                   (lastResp' = "declined" /\ bsc' = bsc)]_vars

C1_Witness ==
    /\ lastResp = "signed"
    /\ dispatchRank = 1
    /\ startRank > 1

\* C3: a Missed() call made while the counter is locked returns
\* ErrCounterLocked and leaves missedInARow, rank and the lock as they were.
C3_LockedMissed ==
    [][(ObsMissed /\ bsc.counterLocked) =>
          /\ lastErr' = ErrCounterLocked
          /\ bsc' = bsc]_vars

C3_Witness ==
    /\ bsc.counterLocked
    /\ lastErr = ErrCounterLocked

\* C4: with the counter unlocked, a Missed() call that does not reach the
\* threshold adds exactly 1 to missedInARow and returns nil; the call that
\* reaches it (the threshold-th call in a row) leaves missedInARow at 0 and
\* returns what the promotion attempt yields.
C4_CountThenPromote ==
    [][(ObsMissed /\ ~bsc.counterLocked) =>
          /\ (bsc.missedInARow + 1 # bsc.threshold) =>
                /\ bsc'.missedInARow = bsc.missedInARow + 1
                /\ bsc'.rank = bsc.rank
                /\ lastErr' = ErrNil
          /\ (bsc.missedInARow + 1 = bsc.threshold) =>
                /\ bsc'.missedInARow = 0
                /\ lastErr' \in {ErrThresholdExceeded, ErrMustShutdown}
          /\ missedCalls' > 0 =>
                (bsc'.missedInARow = 0 <=> missedCalls' % bsc.threshold = 0)]_vars

C4_Witness ==
    /\ ~bsc.counterLocked
    /\ missedCalls = bsc.threshold
    /\ bsc.missedInARow = 0
    /\ lastErr = ErrThresholdExceeded

\* C5: at a rank above 1, the Missed() call that reaches the threshold takes
\* exactly 1 off the rank, leaves missedInARow at 0 and returns
\* ErrThresholdExceeded.
C5_PromoteAboveOne ==
    [][(/\ ObsMissed
        /\ ~bsc.counterLocked
        /\ bsc.rank > 1
        /\ bsc.missedInARow + 1 = bsc.threshold) =>
          /\ bsc'.rank = bsc.rank - 1
          /\ bsc'.missedInARow = 0
          /\ lastErr' = ErrThresholdExceeded]_vars

C5_Witness ==
    /\ lastErr = ErrThresholdExceeded
    /\ startRank = 3
    /\ bsc.rank = 2
    /\ bsc.missedInARow = 0

\* C6: at rank 1, the Missed() call that reaches the threshold leaves the
\* rank at 1 and returns ErrMustShutdown.
C6_ShutdownAtRankOne ==
    [][(/\ ObsMissed
        /\ ~bsc.counterLocked
        /\ bsc.rank = 1
        /\ bsc.missedInARow + 1 = bsc.threshold) =>
          /\ bsc'.rank = 1
          /\ lastErr' = ErrMustShutdown]_vars

C6_Witness ==
    /\ lastErr = ErrMustShutdown
    /\ bsc.rank = 1
    /\ startRank = 1

\* C7: when HandleRequest returns ErrMustShutdown, run stops the service
\* (Quit() is closed), closes the connection and returns; once run has
\* returned, no request is read or dispatched any more.
C7_MustShutdownTerminates ==
    [][/\ (\E req \in Requests, saveOk \in BOOLEAN : RunDispatch(req, saveOk))
            => (handleErr' = ErrMustShutdown
                   => (pc' = "done" /\ quit' /\ conn' = "closed"))
       /\ pc = "done"
            => (pc' = "done" /\ UNCHANGED <<lastResp, dispatchRank, handleErr>>)]_vars

C7_Witness ==
    /\ handleErr = ErrMustShutdown
    /\ pc = "done"
    /\ quit
    /\ conn = "closed"

\* C8: the rank is at least 1 in every state and no step raises it.
C8_RankFloorAndMonotone ==
    [][/\ bsc.rank >= 1
       /\ bsc'.rank >= 1
       /\ bsc'.rank <= bsc.rank]_vars

C8_Witness ==
    /\ startRank = 3
    /\ bsc.rank = 1
    /\ lastErr = ErrMustShutdown

\* C9: missedInARow stays within 0..threshold and the threshold keeps the
\* value it was built with.
C9_CounterRange ==
    [][/\ bsc.missedInARow >= 0
       /\ bsc.missedInARow <= bsc.threshold
       /\ bsc'.missedInARow >= 0
       /\ bsc'.missedInARow <= bsc'.threshold
       /\ bsc'.threshold = bsc.threshold]_vars

C9_Witness ==
    /\ ~bsc.counterLocked
    /\ bsc.threshold = 3
    /\ bsc.missedInARow = 2
    /\ lastErr = ErrNil

\* C10: threshold 3, start rank 3, counter unlocked: after 3 Missed() calls
\* in a row the rank is 2 and missedInARow 0; after 6 the rank is 1 and
\* missedInARow 0; calls 7 to 9 leave the rank at 1 and call 9 returns
\* ErrMustShutdown.
C10_Scenario ==
    (startRank = 3 /\ bsc.threshold = 3 /\ missedCalls >= 0) =>
       /\ missedCalls = 0 => (bsc.rank = 3 /\ bsc.missedInARow = 0)
       /\ missedCalls = 3 => (bsc.rank = 2 /\ bsc.missedInARow = 0
                                /\ lastErr = ErrThresholdExceeded)
       /\ missedCalls = 6 => (bsc.rank = 1 /\ bsc.missedInARow = 0
                                /\ lastErr = ErrThresholdExceeded)
       /\ missedCalls \in 7..9 => bsc.rank = 1
       /\ missedCalls = 9 => lastErr = ErrMustShutdown

C10_Witness ==
    /\ startRank = 3
    /\ bsc.threshold = 3
    /\ missedCalls = 9
    /\ bsc.rank = 1
    /\ lastErr = ErrMustShutdown


\* C11: the counter is locked from construction, only an UnlockCounter()
\* call unlocks it, every UnlockCounter() call leaves it unlocked, and
\* nothing locks it again; an UnlockCounter() call on an unlocked counter
\* changes nothing and writes no log line, the unlocking call writes one.
C11_UnlockOnce ==
    [][/\ (bsc.counterLocked /\ ~bsc'.counterLocked) => ObsUnlockCounter
       /\ ~bsc.counterLocked => ~bsc'.counterLocked
       /\ ObsUnlockCounter =>
             /\ ~bsc'.counterLocked
             /\ lastCall'.logs = (IF bsc.counterLocked THEN 1 ELSE 0)
             /\ ~bsc.counterLocked => bsc' = bsc]_vars

C11_Witness ==
    /\ ~bsc.counterLocked
    /\ lastCall = [op |-> "UnlockCounter", logs |-> 0]
    /\ bsc.rank < startRank

\* C12: Reset() leaves missedInARow at 0 and the rank, the lock and the
\* threshold alone; a Reset() of the state it leaves is that state again
\* and writes no log line. The call writes a log line iff the counter was
\* not 0.
C12_ResetIdempotent ==
    [][ObsReset =>
          /\ bsc'.missedInARow = 0
          /\ bsc'.rank = bsc.rank
          /\ bsc'.counterLocked = bsc.counterLocked
          /\ bsc'.threshold = bsc.threshold
          /\ Reset(bsc') = bsc'
          /\ ResetLog(bsc') = 0
          /\ lastCall'.logs = (IF bsc.missedInARow > 0 THEN 1 ELSE 0)]_vars

C12_Witness ==
    /\ lastCall = [op |-> "Reset", logs |-> 0]
    /\ lastErr = ErrNil
    /\ bsc.missedInARow = 0
    /\ lastResp = "none"

\* C13: a signing request handled by run is no miss: Missed() is not
\* called; at rank 1 missedInARow is 0 afterwards and the rank and the lock
\* are as before; at another rank the BaseSignCtrled is as before.
C13_SignRequestIsNoMiss ==
    [][\A req \in Requests, saveOk \in BOOLEAN :
          (RunDispatch(req, saveOk) /\ IsSignRequest(req)) =>
             /\ lastErr' = lastErr
             /\ lastCall'.op # "Missed" \/ lastCall' = lastCall
             /\ bsc.rank = 1 =>
                   /\ bsc'.missedInARow = 0
                   /\ bsc'.rank = 1
                   /\ bsc'.counterLocked = bsc.counterLocked
             /\ bsc.rank # 1 => bsc' = bsc]_vars

C13_Witness ==
    /\ lastResp = "signed"
    /\ lastCall = [op |-> "Reset", logs |-> 1]
    /\ bsc.missedInARow = 0
    /\ dispatchRank = 1

\* C14: when run takes the timeout branch and the redial succeeds, the
\* stale connection is closed, run is back in its select on the new
\* connection, and the timer is armed again.
C14_TimerRearmedAfterRedial ==
    [][\A keyOk \in BOOLEAN, dialOk \in BOOLEAN, saveOk \in BOOLEAN :
          (RunTimeout(keyOk, dialOk, saveOk) /\ keyOk /\ dialOk) =>
             /\ pc' = "select"
             /\ conn' = "open"
             /\ openConns' = 1
             /\ timer' = "armed"]_vars

\* C15: the process never holds more than one connection to the validator
\* open, and the one it holds is pv.SecretConn.
C15_OneConnection ==
    /\ openConns \in {0, 1}
    /\ openConns = 1 <=> conn = "open"

C15_Witness ==
    /\ timer = "expired"
    /\ pc = "reading"
    /\ conn = "open"
    /\ openConns = 1

\* C16: once run has returned, the connection is closed.
C16_ClosedOnEveryExit ==
    pc = "done" => conn # "open"

\* C17: when the reconnect after a timeout fails (the key cannot be loaded,
\* or the redial returns an error), run returns and the service is stopped.
C17_FailedRedialStopsService ==
    [][\A keyOk \in BOOLEAN, dialOk \in BOOLEAN, saveOk \in BOOLEAN :
          (RunTimeout(keyOk, dialOk, saveOk) /\ ~(keyOk /\ dialOk)) =>
             /\ pc' = "done"
             /\ quit']_vars


\* C18: a run that is blocked in its read when the service is stopped has
\* returned by the time the process exits with status 0, also when no
\* message and no read error arrives any more.
C18_QuitUnblocksRead ==
    (quit /\ exit = "exit0") => pc # "reading"

\* ------------------------------ two goroutines on one BaseSignCtrled
\* The observer's Missed() and the run goroutine's Reset() (through the
\* signing of a request) work on the same BaseSignCtrled, whose fields no
\* mutex guards (signctrled.go:31-39): the reads and writes of the two calls
\* interleave.

InitOneIdle ==
    /\ bsc = NewBaseSignCtrled(2, 1)
    /\ startRank = 1
    /\ lastErr = "none"
    /\ missedCalls = -1
    /\ outcome = ErrNil
    /\ lastCall = [op |-> "New", logs |-> 0]
    /\ pc = "new"
    /\ quit = FALSE
    /\ conn = "none"
    /\ openConns = 0
    /\ timer = "none"
    /\ exit = "running"
    /\ lastResp = "none"
    /\ dispatchRank = 0
    /\ handleErr = ErrNil
    /\ ioErr = "none"
    /\ stopCause = "none"

\* The BaseSignCtrled at the moment the observer enters Missed() and the
\* run goroutine enters Reset().
InitRace ==
    /\ InitOneIdle
    /\ InitMulti
    /\ InitCfgIdle
    /\ InitLegacyIdle
    /\ \E t \in 2..MaxThreshold, r \in 1..MaxRank, l \in BOOLEAN :
          \E m \in 0..(t - 1) :
             LET b == [counterLocked |-> l, missedInARow |-> m,
                       threshold |-> t, rank |-> r]
             IN  race = [bsc |-> b, start |-> b, obsPc |-> "enter",
                         tmp |-> 0, err |-> "none", loopPc |-> "check"]

RaceFrame == UNCHANGED <<ctrlVars, loopVars, multiVars, cfg, verdict, legacy>>

\* Missed, signctrled.go:70-72: the lock is read.
RaceMissedEnter ==
    /\ race.obsPc = "enter"
    /\ race' = IF race.bsc.counterLocked
               THEN [race EXCEPT !.obsPc = "done", !.err = ErrCounterLocked]
               ELSE [race EXCEPT !.obsPc = "load"]
    /\ RaceFrame

\* Missed, signctrled.go:75, missedInARow++: the counter is read ...
RaceMissedLoad ==
    /\ race.obsPc = "load"
    /\ race' = [race EXCEPT !.obsPc = "store", !.tmp = race.bsc.missedInARow]
    /\ RaceFrame

\* ... and the value read, plus one, is written.
RaceMissedStore ==
    /\ race.obsPc = "store"
    /\ race' = [race EXCEPT !.obsPc = "compare",
                            !.bsc.missedInARow = race.tmp + 1]
    /\ RaceFrame

\* Missed, signctrled.go:76-85: the counter is read again and compared with
\* the threshold; Reset() and promote() follow when they are equal.
RaceMissedCompare ==
    /\ race.obsPc = "compare"
    /\ race' = IF race.bsc.missedInARow = race.bsc.threshold
               THEN [race EXCEPT !.obsPc = "done",
                                 !.bsc = promote(Reset(race.bsc)).bsc,
                                 !.err = IF promote(Reset(race.bsc)).err # ErrNil
                                         THEN promote(Reset(race.bsc)).err
                                         ELSE ErrThresholdExceeded]
               ELSE [race EXCEPT !.obsPc = "done", !.err = ErrNil]
    /\ RaceFrame

\* Reset, signctrled.go:93: the counter is read.
RaceResetCheck ==
    /\ race.loopPc = "check"
    /\ race' = [race EXCEPT !.loopPc = IF race.bsc.missedInARow > 0
                                       THEN "write" ELSE "done"]
    /\ RaceFrame

\* Reset, signctrled.go:95: the counter is written.
RaceResetWrite ==
    /\ race.loopPc = "write"
    /\ race' = [race EXCEPT !.loopPc = "done", !.bsc.missedInARow = 0]
    /\ RaceFrame

NextRace ==
    \/ RaceMissedEnter
    \/ RaceMissedLoad
    \/ RaceMissedStore
    \/ RaceMissedCompare
    \/ RaceResetCheck
    \/ RaceResetWrite

SpecRace == InitRace /\ [][NextRace]_vars

\* C19: when Missed() and Reset() have run concurrently and both have
\* returned, the BaseSignCtrled is the one that Missed();Reset() or
\* Reset();Missed() leaves, and missedInARow is below the threshold.
C19_CallsAreAtomic ==
    (race.obsPc = "done" /\ race.loopPc = "done") =>
        /\ race.bsc \in {Reset(Missed(race.start).bsc),
                         Missed(Reset(race.start)).bsc}
        /\ race.bsc.missedInARow < race.bsc.threshold


\* --------------------------------------- validating a configuration
\* The tests take testConfig, set fields of it and call validate.
InitCfg ==
    /\ InitOneIdle
    /\ InitMulti
    /\ InitRaceIdle
    /\ InitCfgIdle
    /\ InitLegacyIdle

CfgFrame == UNCHANGED <<ctrlVars, loopVars, multiVars, race, legacy>>

\* A field of the configuration is set; the configuration is unchecked.
CfgSet(field, value) ==
    /\ value # cfg[field]
    /\ cfg' = [cfg EXCEPT ![field] = value]
    /\ verdict' = "none"
    /\ CfgFrame

\* Base.validate, config.go:84-112: nil iff no message was collected.
CfgValidate ==
    /\ verdict = "none"
    /\ verdict' = IF validate(cfg) = {} THEN "nil" ELSE "error"
    /\ UNCHANGED cfg
    /\ CfgFrame

NextCfg ==
    \/ \E field \in CfgFields : \E value \in CfgValues(field) :
          CfgSet(field, value)
    \/ CfgValidate

SpecCfg == InitCfg /\ [][NextCfg]_vars

\* C20: validate returns an error for every configuration whose set_size
\* is below 2, whose threshold is below 2 or whose start_rank is below 1,
\* whatever the other fields hold; it returns nil for testConfig; the
\* BaseSignCtrled built from a configuration it returned nil for has a
\* threshold of at least 2 and a rank of at least 1.
C20_ValidateBounds ==
    [][CfgValidate =>
          /\ (cfg.SetSize < 2 \/ cfg.Threshold < 2 \/ cfg.StartRank < 1)
                => verdict' = "error"
          /\ cfg = testConfig => verdict' = "nil"
          /\ verdict' = "nil" =>
                /\ NewBaseSignCtrled(cfg.Threshold, cfg.StartRank).threshold >= 2
                /\ NewBaseSignCtrled(cfg.Threshold, cfg.StartRank).rank >= 1]_vars

C20_Witness ==
    /\ verdict = "error"
    /\ cfg = [testConfig EXCEPT !.Threshold = 1]


\* C25: the rank changes only in a Missed() call that returns
\* ErrThresholdExceeded, and then it drops by exactly one; every Missed()
\* call that returns ErrThresholdExceeded has dropped it by one. Reset(),
\* UnlockCounter(), the handling of a request and a Missed() call that
\* returns nil, ErrCounterLocked or ErrMustShutdown leave the rank alone.
C25_RankChangesOnlyOnPromotion ==
    [][/\ bsc'.rank # bsc.rank =>
             /\ ObsMissed
             /\ lastErr' = ErrThresholdExceeded
             /\ bsc'.rank = bsc.rank - 1
       /\ (ObsMissed /\ lastErr' = ErrThresholdExceeded) =>
             bsc'.rank = bsc.rank - 1
       /\ (ObsMissed /\ lastErr' # ErrThresholdExceeded) =>
             bsc'.rank = bsc.rank
       /\ (ObsReset \/ ObsUnlockCounter) => bsc'.rank = bsc.rank]_vars

C25_Witness ==
    /\ lastErr = ErrThresholdExceeded
    /\ lastCall.op = "Missed"
    /\ bsc.rank = startRank - 1
    /\ bsc.rank > 1


\* ------------------------------------- the legacy PairmintFilePV
\* file_pv.go: the signer keeps its rank in Config.Init.Rank. Missed()
\* counts a block when the counter is unlocked and returns
\* ErrTooManyMissedBlocks at the threshold; the caller then calls Update().
PairmintReset(p) ==
    IF p.MissedInARow # 0 THEN [p EXCEPT !.MissedInARow = 0] ELSE p

PairmintMissed(p) ==
    IF ~p.CounterUnlocked
    THEN [p EXCEPT !.err = ErrNil]
    ELSE LET inc == [p EXCEPT !.MissedInARow = @ + 1] IN
         IF inc.MissedInARow = inc.Threshold
         THEN [PairmintReset(inc) EXCEPT !.err = ErrTooManyMissedBlocks]
         ELSE [inc EXCEPT !.err = ErrNil]

PairmintUpdate(p) == PairmintReset([p EXCEPT !.Rank = @ - 1])

InitLegacy ==
    /\ InitOneIdle
    /\ InitMulti
    /\ InitRaceIdle
    /\ InitCfgIdle
    /\ \E t \in 2..MaxThreshold, r \in 1..MaxRank :
          legacy = NewPairmintFilePV(t, r)

LegacyFrame == UNCHANGED <<ctrlVars, loopVars, multiVars, race, cfg, verdict>>

\* The caller sets the exported field once it has seen a block signed by
\* the node of rank 1.
LegacyUnlock ==
    /\ legacy.err # ErrTooManyMissedBlocks
    /\ legacy' = [legacy EXCEPT !.CounterUnlocked = TRUE]
    /\ LegacyFrame

LegacyMissed ==
    /\ legacy.err # ErrTooManyMissedBlocks
    /\ legacy' = PairmintMissed(legacy)
    /\ LegacyFrame

LegacyReset ==
    /\ legacy.err # ErrTooManyMissedBlocks
    /\ legacy' = PairmintReset(legacy)
    /\ LegacyFrame

\* Update(), called once for the ErrTooManyMissedBlocks of the latest
\* Missed(). The rank is followed down to -MaxRank.
LegacyUpdate ==
    /\ legacy.err = ErrTooManyMissedBlocks
    /\ legacy.Rank + MaxRank > 0
    /\ legacy' = [PairmintUpdate(legacy) EXCEPT !.err = "none",
                                                !.updates = @ + 1]
    /\ LegacyFrame

NextLegacy ==
    \/ LegacyUnlock
    \/ LegacyMissed
    \/ LegacyReset
    \/ LegacyUpdate

SpecLegacy == InitLegacy /\ [][NextLegacy]_vars

\* C26: in the legacy PairmintFilePV the rank never drops below 1; every
\* Update() lowers it by exactly one and leaves MissedInARow at 0.
C26_LegacyRankFloor ==
    [][/\ legacy'.Rank >= 1
       /\ LegacyUpdate =>
             /\ legacy'.Rank = legacy.Rank - 1
             /\ legacy'.MissedInARow = 0]_vars


\* ------------------------------------------------------ scheduling
\* The goroutines of the process get to run: run takes a branch of its
\* select that is ready, the timer fires once it is armed, main goes on
\* after its select. Nothing is assumed about the validator (a message or a
\* read error may never come), about signals, or about the chain.
Fairness ==
    /\ WF_vars(\E keyOk \in BOOLEAN, dialOk \in BOOLEAN : OnStart(keyOk, dialOk))
    /\ WF_vars(TimerFire)
    /\ WF_vars(RunQuit)
    /\ WF_vars(\E keyOk \in BOOLEAN, dialOk \in BOOLEAN, saveOk \in BOOLEAN :
                  RunTimeout(keyOk, dialOk, saveOk))
    /\ WF_vars(RunDefault)
    /\ WF_vars(MainExit)

SpecFair == Spec /\ Fairness

\* C21: when the timer has fired while run is in a read, then, unless a
\* message is read after all or the process ends, the timeout branch is
\* eventually taken.
C21_TimeoutBranchTaken ==
    (pc = "reading" /\ timer = "fired" /\ exit = "running")
        ~> (timer # "fired" \/ exit # "running")


\* C22: when ReadMsg fails (EOF included), run goes back to its select: no
\* request is dispatched and no response composed, the connection is not
\* closed, the timer is not reset, the service is not stopped and the
\* BaseSignCtrled is as before.
C22_ReadFailureChangesNothing ==
    [][RunReadFail =>
          /\ pc' = "select"
          /\ lastResp' = lastResp
          /\ dispatchRank' = dispatchRank
          /\ handleErr' = handleErr
          /\ conn' = conn
          /\ openConns' = openConns
          /\ timer' = timer
          /\ quit' = quit
          /\ exit' = exit
          /\ bsc' = bsc
          /\ outcome' = outcome]_vars

C22_Witness ==
    /\ ioErr = "read"
    /\ pc = "select"
    /\ conn = "open"
    /\ timer = "fired"
    /\ exit = "running"

\* C23: when HandleRequest returns ErrThresholdExceeded or no error, and
\* whether or not the response could be written, run goes back to its
\* select on the same connection and the service is not stopped.
C23_OnlyMustShutdownTerminates ==
    [][\A req \in Requests, saveOk \in BOOLEAN :
          (RunDispatch(req, saveOk) /\ handleErr' # ErrMustShutdown) =>
             /\ pc' = "select"
             /\ conn = "open"
             /\ conn' = conn
             /\ openConns' = openConns
             /\ quit' = quit
             /\ exit' = exit
             /\ stopCause' = stopCause]_vars

C23_Witness ==
    /\ handleErr = ErrThresholdExceeded
    /\ ioErr = "write"
    /\ pc = "select"
    /\ conn = "open"
    /\ ~quit
    /\ exit = "running"

\* C24: a process that has exited after a fault of its own (OnStart failed,
\* conn.key could not be loaded on a reconnect, the state could not be
\* saved) has exited with status 1, and one that has exited after an
\* ErrMustShutdown has exited with status 0.
C24_ExitStatus ==
    exit # "running" =>
        /\ stopCause \in {"start", "key", "save"} => exit = "exit1"
        /\ stopCause = "shutdown" => exit = "exit0"

====
